---------------------------- MODULE Spec2Model ----------------------------
(***************************************************************************)
(* A model of the tiler of cph-trees, src/split_geojson.py: get_bounds,    *)
(* feature_intersects_tile and split_geojson, with the output directories  *)
(* it writes to.                                                           *)
(*                                                                         *)
(* Numbers are Python floats, kept exactly; the additions of lines 81, 83   *)
(* and 85 round as IEEE 754 doubles do.                                    *)
(***************************************************************************)
EXTENDS Integers, Sequences, FiniteSets, TLC

VARIABLES
    pc,          \* where split_geojson stands: idle, bounds, grid, assign,
                 \* mkdir, write, done, failed (an exception left the call)
    error,       \* the exception that ended the call ("" when none)
    features,    \* data["features"] of the input file (line 60)
    grid_size,   \* the grid_size argument
    output_dir,  \* the output_dir argument
    min_lon, min_lat, max_lon, max_lat,   \* lines 66-69
    tiles,       \* the dict of line 74, in insertion order
    lon,         \* the running longitude of the outer loop
    tile_x,      \* line 76
    tile_y,      \* line 79; Unbound until the outer loop body has run
    i,           \* position of the assignment loop (line 92), 1-based
    w,           \* position of the write loop (line 107), 1-based
    tile_info,   \* line 105
    disk,        \* the file system: output directory -> its state
    runs,        \* calls of split_geojson started so far
    pre,         \* history: the state of output_dir when the call began
    completed,   \* history: one record per call that returned
    call         \* one call of feature_intersects_tile (SpecIntersect)

vars == << pc, error, features, grid_size, output_dir, min_lon, min_lat,
           max_lon, max_lat, tiles, lon, tile_x, tile_y, i, w, tile_info,
           disk, runs, pre, completed, call >>

-----------------------------------------------------------------------------
(* Bounds of the model *)

MaxCoord == 3

MaxFeatures == 2

MaxGrid == 2

MaxRuns == 2

Dirs == {"tiles/streets", "tiles/trees"}

-----------------------------------------------------------------------------
(* Numbers.  A number is a Python float, an IEEE 754 double, and is kept   *)
(* exactly: the number v is the triple << a0, a1, a2 >> of the limbs, of   *)
(* 24 bits each, of the integer v * 2^60 = a0 + a1 * 2^24 + a2 * 2^48.     *)
(* Every double from 2^-8 up to 4096, and 0, is such a triple; an integer  *)
(* of the input (a Python int) is the double of the same value, on which   *)
(* the code's arithmetic gives the same results.                           *)

Limb == 2 ^ 24

\* The integer k
float_of(k) == << 0, 0, k * 2 ^ 12 >>

\* The doubles json.load reads from the decimals 0.0, 0.1, ... 1.2
Tenths ==
    << << 0, 0, 0 >>,
       << 10066336, 10066329, 409 >>,
       << 3355456, 3355443, 819 >>,
       << 13421760, 13421772, 1228 >>,
       << 6710912, 6710886, 1638 >>,
       << 0, 0, 2048 >>,
       << 10066304, 10066329, 2457 >>,
       << 3355392, 3355443, 2867 >>,
       << 13421824, 13421772, 3276 >>,
       << 6710912, 6710886, 3686 >>,
       << 0, 0, 4096 >>,
       << 10066432, 10066329, 4505 >>,
       << 3355392, 3355443, 4915 >> >>

\* The double of the decimal k/10
Tenth(k) == Tenths[k + 1]

\* The double of the decimal 0.05, the grid size of lines 160-164
Double005 == << 13421776, 13421772, 204 >>

\* a < b and a <= b on floats
float_lt(a, b) ==
    \/ a[3] < b[3]
    \/ a[3] = b[3] /\ a[2] < b[2]
    \/ a[3] = b[3] /\ a[2] = b[2] /\ a[1] < b[1]

float_le(a, b) == a = b \/ float_lt(a, b)

\* min() and max() of a non-empty collection of floats
float_min(S) == CHOOSE m \in S : \A n \in S : float_le(m, n)

float_max(S) == CHOOSE m \in S : \A n \in S : float_le(n, m)

\* The sum of the two numbers as a real number, not rounded
ExactAdd(a, b) ==
    LET s0 == a[1] + b[1]
        s1 == a[2] + b[2] + (s0 \div Limb)
    IN  << s0 % Limb, s1 % Limb, a[3] + b[3] + (s1 \div Limb) >>

\* The number of bits of the integer n
RECURSIVE Bits(_)
Bits(n) == IF n = 0 THEN 0 ELSE 1 + Bits(n \div 2)

BitLen(a) ==
    IF a[3] # 0 THEN 48 + Bits(a[3])
    ELSE IF a[2] # 0 THEN 24 + Bits(a[2])
    ELSE Bits(a[1])

\* The double nearest to the number, ties to the even one: the rounding of
\* every float operation
Round53(a) ==
    IF BitLen(a) <= 53 THEN a
    ELSE LET s == BitLen(a) - 53
             rem == a[1] % (2 ^ s)
             half == 2 ^ (s - 1)
             odd == (a[1] \div (2 ^ s)) % 2 = 1
             down == << a[1] - rem, a[2], a[3] >>
         IN  IF rem > half \/ (rem = half /\ odd)
             THEN ExactAdd(down, << 2 ^ s, 0, 0 >>)
             ELSE down

\* a + b on floats, lines 81, 83 and 85
float_add(a, b) == Round53(ExactAdd(a, b))

\* The doubles of the decimals 0.12 and 0.07
Double012 == << 5368704, 8724152, 491 >>

Double007 == << 8724160, 12079595, 286 >>

\* The coordinates and grid sizes of the inputs: integers, and decimals
Coords == 0 .. MaxCoord

GridSizes == { float_of(g) : g \in 1 .. MaxGrid }

DecCoords == 0 .. MaxCoord + 1

DecGridSizes == { Double005 } \cup { Tenth(k) : k \in 1 .. MaxGrid - 1 }

-----------------------------------------------------------------------------
(* Features.  A geometry is a record; a JSON null geometry and a geometry  *)
(* without a "coordinates" member are records lacking that field.          *)

\* A position of integer coordinates, and one of coordinates a/10, b/10
Pt(x, y) == << float_of(x), float_of(y) >>

DecPt(a, b) == << Tenth(a), Tenth(b) >>

Point(x, y) == [geometry |-> [type |-> "Point", coordinates |-> Pt(x, y)]]

DecPoint(a, b) ==
    [geometry |-> [type |-> "Point", coordinates |-> DecPt(a, b)]]

LineString(cs) == [geometry |-> [type |-> "LineString", coordinates |-> cs]]

Polygon(rings) == [geometry |-> [type |-> "Polygon", coordinates |-> rings]]

MultiPolygon(polys) ==
    [geometry |-> [type |-> "MultiPolygon", coordinates |-> polys]]

MultiLineString(ls) ==
    [geometry |-> [type |-> "MultiLineString", coordinates |-> ls]]

GeometryCollection == [geometry |-> [type |-> "GeometryCollection"]]

NullGeometry == [geometry |-> [null |-> TRUE]]

-----------------------------------------------------------------------------
(* Python builtins used by the code *)

Range(s) == { s[k] : k \in DOMAIN s }

\* The first of a set of positions of a list
Min(S) == CHOOSE m \in S : \A n \in S : m <= n

\* Python's None, and its truth value: None and the empty tuple are falsy,
\* a 4-tuple is truthy.
None == << >>

Truthy(v) == v # << >>

Unbound == -1

-----------------------------------------------------------------------------
(* get_bounds, lines 11-26 *)

\* The exception line 13 raises for the feature, "" when it raises none:
\* None["coordinates"] is a TypeError, a missing key a KeyError.
get_bounds_raises(feature) ==
    IF "null" \in DOMAIN feature.geometry THEN "TypeError"
    ELSE IF "coordinates" \notin DOMAIN feature.geometry THEN "KeyError"
    ELSE ""

get_bounds(feature) ==
    LET coords == feature.geometry.coordinates
        geom_type == feature.geometry.type
    IN  IF geom_type = "Point" THEN
            << coords[1], coords[2], coords[1], coords[2] >>
        ELSE IF geom_type = "LineString" THEN
            LET lons == { coords[k][1] : k \in DOMAIN coords }
                lats == { coords[k][2] : k \in DOMAIN coords }
            IN  << float_min(lons), float_min(lats),
                   float_max(lons), float_max(lats) >>
        ELSE IF geom_type = "Polygon" THEN
            LET lons == { coords[1][k][1] : k \in DOMAIN coords[1] }
                lats == { coords[1][k][2] : k \in DOMAIN coords[1] }
            IN  << float_min(lons), float_min(lats),
                   float_max(lons), float_max(lats) >>
        ELSE None

-----------------------------------------------------------------------------
(* feature_intersects_tile, lines 29-44 *)

feature_intersects_tile_strict(feature, tile_bounds) ==
    LET feat_bounds == get_bounds(feature)
    IN  IF ~ Truthy(feat_bounds) THEN FALSE
        ELSE ~ (   float_le(feat_bounds[3], tile_bounds[1])
                \/ float_le(tile_bounds[3], feat_bounds[1])
                \/ float_le(feat_bounds[4], tile_bounds[2])
                \/ float_le(tile_bounds[4], feat_bounds[2]) )

feature_intersects_tile(feature, tile_bounds) ==
    LET feat_bounds == get_bounds(feature)
    IN  IF ~ Truthy(feat_bounds) THEN FALSE
        ELSE ~ (   float_lt(feat_bounds[3], tile_bounds[1])
                \/ float_lt(tile_bounds[3], feat_bounds[1])
                \/ float_lt(feat_bounds[4], tile_bounds[2])
                \/ float_lt(tile_bounds[4], feat_bounds[2]) )

-----------------------------------------------------------------------------
(* The inputs: FeatureCollections of at most MaxFeatures features *)

\* Points of every longitude, on three latitudes
Points == { Point(x, y) : x \in Coords, y \in {0, 1, MaxCoord} }

LineStrings ==
    { LineString(<< Pt(0, 0), Pt(MaxCoord, 1) >>),
      LineString(<< Pt(1, 1), Pt(MaxCoord, 1) >>),
      LineString(<< Pt(1, MaxCoord), Pt(1, 1) >>),
      LineString(<< Pt(2, 0), Pt(1, 2), Pt(2, 2) >>) }

Polygons ==
    { Polygon(<< << Pt(0, 0), Pt(2, 0), Pt(1, 1), Pt(0, 0) >> >>),
      Polygon(<< << Pt(1, 1), Pt(MaxCoord, 1), Pt(MaxCoord, MaxCoord),
                    Pt(1, 1) >>,
                 << Pt(2, 1), Pt(MaxCoord, 2), Pt(2, 2), Pt(2, 1) >> >>) }

Unsupported ==
    { MultiPolygon(<< << << Pt(0, 0), Pt(1, 0), Pt(1, 1), Pt(0, 0) >> >> >>),
      MultiLineString(<< << Pt(0, 0), Pt(1, 1) >> >>),
      GeometryCollection,
      NullGeometry }

FeaturePool == Points \cup LineStrings \cup Polygons \cup Unsupported

SeqsUpTo(S, n) == UNION { [1 .. k -> S] : k \in 0 .. n }

Inputs == SeqsUpTo(FeaturePool, MaxFeatures)

\* Two Points of decimal coordinates, one of them on an axis, and the
\* bounds (0, 0, 0.12, 0.07)
DecInputs ==
    { << DecPoint(a, 0), DecPoint(b, c) >> :
        a \in DecCoords, b \in DecCoords, c \in 0 .. 1 }
    \cup { << DecPoint(0, a), DecPoint(c, b) >> :
              a \in DecCoords, b \in DecCoords, c \in 0 .. 1 }

ExampleInput ==
    << Point(0, 0),
       [geometry |-> [type |-> "Point",
                      coordinates |-> << Double012, Double007 >>]] >>

\* Points spanning 0.8 on one axis and 0.05 on the other, where the eighth
\* sum of 0.1 is below 0.8, and three Points of which one lies next to the
\* cell edge 0.1 + 0.1 + 0.1
LongInputs ==
    { << Point(0, 0),
         [geometry |-> [type |-> "Point",
                        coordinates |-> << Double005, Tenth(8) >>]] >>,
      << Point(0, 0),
         [geometry |-> [type |-> "Point",
                        coordinates |-> << Tenth(8), Double005 >>]] >>,
      << Point(0, 0),
         [geometry |-> [type |-> "Point",
                        coordinates |-> << Tenth(3), Double005 >>]],
         DecPoint(4, 1) >> }

\* The calls: an input and a grid size
Calls ==
    (Inputs \X GridSizes) \cup (DecInputs \X DecGridSizes)
        \cup { << ExampleInput, Double005 >> }
        \cup (LongInputs \X { Tenth(1) })

\* The inputs of the repeated runs: a few collections, among them one
\* without a feature, one with a single Point and one with an unsupported
\* geometry.
RepeatInputs ==
    { << >>,
      << Point(0, 0) >>,
      << Point(0, 0), Point(1, 1) >>,
      << Point(2, 2), Point(0, 0) >>,
      << LineString(<< Pt(1, 1), Pt(3, 1) >>), Point(0, 0) >>,
      << MultiPolygon(<< << << Pt(0, 0), Pt(1, 0), Pt(1, 1), Pt(0, 0) >> >> >>),
         Point(0, 1), Point(1, 0) >> }

RepeatCalls ==
    (RepeatInputs \X GridSizes)
        \cup { << << DecPoint(3, 0), DecPoint(MaxCoord + 1, 1) >>, Tenth(1) >> }

-----------------------------------------------------------------------------
(* The output directories *)

NoDir == [exists |-> FALSE, files |-> << >>, index |-> << >>]

\* f"tile_{tile_x}_{tile_y}.json", line 110
filename(x, y) == "tile_" \o ToString(x) \o "_" \o ToString(y) \o ".json"

\* open(filepath, "w") + json.dump: the file is created or replaced
WriteFile(files, name, content) ==
    [n \in DOMAIN files \cup {name} |->
        IF n = name THEN content ELSE files[n]]

-----------------------------------------------------------------------------
(* The dict tiles: a sequence of entries in insertion order *)

\* tiles[key] = value: a new key is appended, a known key keeps its place
DictSet(d, key, value) ==
    IF \E k \in DOMAIN d : d[k].key = key
    THEN [k \in DOMAIN d |->
            IF d[k].key = key
            THEN [key |-> key, bounds |-> value.bounds,
                  features |-> value.features]
            ELSE d[k]]
    ELSE Append(d, [key |-> key, bounds |-> value.bounds,
                    features |-> value.features])

-----------------------------------------------------------------------------
(* split_geojson, lines 47-157 *)

Terminal == pc \in {"done", "failed"}

\* An exception leaves the call: nothing after the raising line runs.
Raise(name) ==
    /\ pc' = "failed"
    /\ error' = name

\* Lines 56-61: the call begins and the input file is read.
Load(calls, dirs, limit) ==
    /\ pc \in {"idle", "done", "failed"}
    /\ runs < limit
    /\ \E c \in calls, d \in dirs :
          /\ features' = c[1]
          /\ grid_size' = c[2]
          /\ output_dir' = d
          /\ pre' = disk[d]
    /\ pc' = "bounds"
    /\ error' = ""
    /\ runs' = runs + 1
    /\ min_lon' = float_of(0) /\ min_lat' = float_of(0)
    /\ max_lon' = float_of(0) /\ max_lat' = float_of(0)
    /\ tiles' = << >> /\ tile_info' = << >>
    /\ lon' = float_of(0) /\ tile_x' = 0 /\ tile_y' = Unbound
    /\ i' = 0 /\ w' = 0
    /\ UNCHANGED << disk, completed, call >>

HasBounds(b) == Truthy(b)

\* [get_bounds(f) for f in features if get_bounds(f)], line 65
all_bounds(fs) ==
    SelectSeq([k \in DOMAIN fs |-> get_bounds(fs[k])], HasBounds)

\* The first feature, in order, on which get_bounds raises; 0 when none does
FirstRaising(fs) ==
    LET bad == { k \in DOMAIN fs : get_bounds_raises(fs[k]) # "" }
    IN  IF bad = {} THEN 0 ELSE Min(bad)

\* min() and max() of lines 66-69 answer a tile covering nothing when
\* there is no bounding box
overall_bounds_default(ab) ==
    IF ab = << >>
    THEN [raised |-> "",
          value |-> << float_of(0), float_of(0), float_of(1), float_of(1) >>]
    ELSE [raised |-> "",
          value |-> << float_min({ ab[k][1] : k \in DOMAIN ab }),
                       float_min({ ab[k][2] : k \in DOMAIN ab }),
                       float_max({ ab[k][3] : k \in DOMAIN ab }),
                       float_max({ ab[k][4] : k \in DOMAIN ab }) >>]

\* Lines 66-69: min() of an empty sequence raises ValueError
overall_bounds(ab) ==
    IF ab = << >>
    THEN [raised |-> "ValueError", value |-> None]
    ELSE [raised |-> "",
          value |-> << float_min({ ab[k][1] : k \in DOMAIN ab }),
                       float_min({ ab[k][2] : k \in DOMAIN ab }),
                       float_max({ ab[k][3] : k \in DOMAIN ab }),
                       float_max({ ab[k][4] : k \in DOMAIN ab }) >>]

\* Lines 63-76: the overall bounds, then the empty dict and the start of
\* the outer loop
CalcBounds ==
    /\ pc = "bounds"
    /\ IF FirstRaising(features) # 0 THEN
          /\ Raise(get_bounds_raises(features[FirstRaising(features)]))
          /\ UNCHANGED << min_lon, min_lat, max_lon, max_lat, lon, tile_x,
                          tiles >>
       ELSE LET ob == overall_bounds(all_bounds(features))
            IN  IF ob.raised # "" THEN
                   /\ Raise(ob.raised)
                   /\ UNCHANGED << min_lon, min_lat, max_lon, max_lat, lon,
                                   tile_x, tiles >>
                ELSE
                   /\ min_lon' = ob.value[1]
                   /\ min_lat' = ob.value[2]
                   /\ max_lon' = ob.value[3]
                   /\ max_lat' = ob.value[4]
                   /\ tiles' = << >>
                   /\ lon' = min_lon'
                   /\ tile_x' = 0
                   /\ pc' = "grid"
                   /\ error' = ""
    /\ UNCHANGED << features, grid_size, output_dir, tile_y, i, w, tile_info,
                    disk, runs, pre, completed, call >>

\* The tests of the two while loops, lines 77 and 80
InGridLon(x) == float_lt(x, max_lon)

InGridLatInclusive(y) == float_le(y, max_lat)

InGridLat(y) == float_lt(y, max_lat)

\* Lines 78-84: the inner loop, from latitude lat and row ty, on the dict ts
RECURSIVE grid_column(_, _, _)
grid_column(lat, ty, ts) ==
    IF InGridLat(lat)
    THEN grid_column(float_add(lat, grid_size), ty + 1,
            DictSet(ts, << tile_x, ty >>,
                    [bounds |-> << lon, lat, float_add(lon, grid_size),
                                   float_add(lat, grid_size) >>,
                     features |-> << >>]))
    ELSE [tiles |-> ts, tile_y |-> ty]

\* Lines 77-86: one pass of the outer loop
GridColumn ==
    /\ pc = "grid"
    /\ InGridLon(lon)
    /\ LET col == grid_column(min_lat, 0, tiles)
       IN  /\ tiles' = col.tiles
           /\ tile_y' = col.tile_y
    /\ lon' = float_add(lon, grid_size)
    /\ tile_x' = tile_x + 1
    /\ UNCHANGED << pc, error, features, grid_size, output_dir, min_lon,
                    min_lat, max_lon, max_lat, i, w, tile_info, disk, runs,
                    pre, completed, call >>

\* Line 88: the outer loop has ended; the message reads tile_y, which is
\* bound only if the outer loop body ran.
GridDone ==
    /\ pc = "grid"
    /\ ~ InGridLon(lon)
    /\ IF tile_y = Unbound THEN
          /\ Raise("UnboundLocalError")
          /\ i' = i
       ELSE
          /\ pc' = "assign"
          /\ error' = ""
          /\ i' = 1
    /\ UNCHANGED << features, grid_size, output_dir, min_lon, min_lat,
                    max_lon, max_lat, tiles, lon, tile_x, tile_y, w,
                    tile_info, disk, runs, pre, completed, call >>

\* The feature is appended to the first tile it intersects only (a break)
AssignToFirst(ts, feature) ==
    LET hits == { k \in DOMAIN ts :
                    feature_intersects_tile(feature, ts[k].bounds) }
    IN  [k \in DOMAIN ts |->
            IF hits # {} /\ k = Min(hits)
            THEN [ts[k] EXCEPT !.features = Append(@, feature)]
            ELSE ts[k]]

\* Lines 96-98 for one feature: it is appended to every tile it intersects
AssignTo(ts, feature) ==
    [k \in DOMAIN ts |->
        IF feature_intersects_tile(feature, ts[k].bounds)
        THEN [ts[k] EXCEPT !.features = Append(@, feature)]
        ELSE ts[k]]

\* Lines 92-98: one pass of the assignment loop
AssignFeature ==
    /\ pc = "assign"
    /\ i <= Len(features)
    /\ tiles' = AssignTo(tiles, features[i])
    /\ i' = i + 1
    /\ UNCHANGED << pc, error, features, grid_size, output_dir, min_lon,
                    min_lat, max_lon, max_lat, lon, tile_x, tile_y, w,
                    tile_info, disk, runs, pre, completed, call >>

\* tile_info as a list shared by all calls (a mutable default argument)
StaleTileInfo ==
    IF completed = << >> THEN << >>
    ELSE completed[Len(completed)].dir.index[1].tiles

\* tile_info seeded from the index already in the directory (a merge)
MergedTileInfo ==
    IF disk[output_dir].index = << >> THEN << >>
    ELSE disk[output_dir].index[1].tiles

\* tile_info = [], line 105
NewTileInfo == << >>

\* Lines 100-105: the assignment loop has ended; mkdir(exist_ok=True)
Mkdir ==
    /\ pc = "assign"
    /\ i > Len(features)
    /\ disk' = [disk EXCEPT ![output_dir].exists = TRUE]
    /\ tile_info' = NewTileInfo
    /\ w' = 1
    /\ pc' = "write"
    /\ UNCHANGED << error, features, grid_size, output_dir, min_lon, min_lat,
                    max_lon, max_lat, tiles, lon, tile_x, tile_y, i, runs,
                    pre, completed, call >>

WritesEveryTile(tile_data) == TRUE

\* len(tile_data["features"]) > 0, line 108
NonEmpty(tile_data) == Len(tile_data.features) > 0

\* len(tile_data["features"]), line 130
FeatureCount(tile_data) == Len(tile_data.features)

\* Lines 113-116: the FeatureCollection written to a tile file
tile_geojson(tile_data) ==
    [type |-> "FeatureCollection", features |-> tile_data.features]

\* Lines 124-133: the index entry of a written tile.  size_kb, the size of
\* the bytes written, is left out: it is a function of the file's content.
TileEntry(tile_data) ==
    [file |-> filename(tile_data.key[1], tile_data.key[2]),
     x |-> tile_data.key[1],
     y |-> tile_data.key[2],
     bounds |-> tile_data.bounds,
     features |-> FeatureCount(tile_data)]

\* Lines 107-137: one pass of the write loop
WriteTile ==
    /\ pc = "write"
    /\ w <= Len(tiles)
    /\ IF NonEmpty(tiles[w]) THEN
          /\ tile_x' = tiles[w].key[1]
          /\ tile_y' = tiles[w].key[2]
          /\ disk' = [disk EXCEPT ![output_dir].files =
                        WriteFile(@, filename(tile_x', tile_y'),
                                  tile_geojson(tiles[w]))]
          /\ tile_info' = Append(tile_info, TileEntry(tiles[w]))
       ELSE
          UNCHANGED << tile_x, tile_y, disk, tile_info >>
    /\ w' = w + 1
    /\ UNCHANGED << pc, error, features, grid_size, output_dir, min_lon,
                    min_lat, max_lon, max_lat, tiles, lon, i, runs, pre,
                    completed, call >>

\* Lines 139-157: the write loop has ended; the index is written and the
\* call returns.
WriteIndex ==
    /\ pc = "write"
    /\ w > Len(tiles)
    /\ disk' = [disk EXCEPT ![output_dir].index =
                  << [grid_size |-> grid_size,
                      bounds |-> << min_lon, min_lat, max_lon, max_lat >>,
                      tiles |-> tile_info] >>]
    /\ pc' = "done"
    /\ completed' = Append(completed,
                       [features |-> features, grid_size |-> grid_size,
                        output_dir |-> output_dir, pre |-> pre,
                        dir |-> disk'[output_dir]])
    /\ UNCHANGED << error, features, grid_size, output_dir, min_lon, min_lat,
                    max_lon, max_lat, tiles, lon, tile_x, tile_y, i, w,
                    tile_info, runs, pre, call >>

-----------------------------------------------------------------------------
(* The specifications *)

NoBox == << float_of(0), float_of(0), float_of(0), float_of(0) >>

NoCall == [feature |-> NullGeometry, tile_bounds |-> NoBox,
           returned |-> FALSE, raised |-> "", result |-> FALSE]

InitRun ==
    /\ pc = "idle"
    /\ error = ""
    /\ features = << >>
    /\ grid_size = float_of(1)
    /\ output_dir = "tiles/streets"
    /\ min_lon = float_of(0) /\ min_lat = float_of(0)
    /\ max_lon = float_of(0) /\ max_lat = float_of(0)
    /\ tiles = << >> /\ tile_info = << >>
    /\ lon = float_of(0) /\ tile_x = 0 /\ tile_y = Unbound
    /\ i = 0 /\ w = 0
    /\ disk = [d \in Dirs |-> NoDir]
    /\ runs = 0
    /\ pre = NoDir
    /\ completed = << >>

Init ==
    /\ InitRun
    /\ call = NoCall

Steps ==
    \/ CalcBounds
    \/ GridColumn
    \/ GridDone
    \/ AssignFeature
    \/ Mkdir
    \/ WriteTile
    \/ WriteIndex

\* One call of split_geojson on any input
Next ==
    \/ Load(Calls, {"tiles/streets"}, 1)
    \/ Steps

Spec == Init /\ [][Next]_vars

\* Calls of split_geojson one after the other, as lines 160-164 make them
NextRepeat ==
    \/ Load(RepeatCalls, Dirs, MaxRuns)
    \/ Steps

SpecRepeat == Init /\ [][NextRepeat]_vars

\* One call of feature_intersects_tile, lines 29-44, on any feature and
\* any tile box
TileBox(lo, la, g) == << lo, la, float_add(lo, g), float_add(la, g) >>

TileBoxes ==
    { TileBox(float_of(x), float_of(y), g) :
        x \in Coords, y \in Coords, g \in GridSizes }
    \cup { TileBox(Tenth(a), Tenth(b), g) :
             a \in DecCoords, b \in DecCoords, g \in DecGridSizes }

CallFeatures ==
    FeaturePool \cup { DecPoint(a, b) : a \in DecCoords, b \in DecCoords }

InitIntersect ==
    /\ InitRun
    /\ call \in { [feature |-> f, tile_bounds |-> b, returned |-> FALSE,
                   raised |-> "", result |-> FALSE] :
                  f \in CallFeatures, b \in TileBoxes }

Intersects ==
    /\ ~ call.returned
    /\ call' =
         IF get_bounds_raises(call.feature) # ""
         THEN [call EXCEPT !.returned = TRUE,
                           !.raised = get_bounds_raises(call.feature)]
         ELSE [call EXCEPT !.returned = TRUE,
                           !.result = feature_intersects_tile(call.feature,
                                                              call.tile_bounds)]
    /\ UNCHANGED << pc, error, features, grid_size, output_dir, min_lon,
                    min_lat, max_lon, max_lat, tiles, lon, tile_x, tile_y, i,
                    w, tile_info, disk, runs, pre, completed >>

NextIntersect == Intersects

SpecIntersect == InitIntersect /\ [][NextIntersect]_vars

-----------------------------------------------------------------------------
(* Notions the properties are stated in *)

\* The feature has a bounding box: get_bounds returns one
Bounded(feature) ==
    /\ get_bounds_raises(feature) = ""
    /\ Truthy(get_bounds(feature))

IsPoint(feature) ==
    /\ "type" \in DOMAIN feature.geometry
    /\ feature.geometry.type = "Point"

\* The geometry is of a type other than Point, LineString and Polygon
UnsupportedType(feature) ==
    \/ "type" \notin DOMAIN feature.geometry
    \/ feature.geometry.type \notin {"Point", "LineString", "Polygon"}

\* Two closed boxes share a point
\* (two closed intervals that meet share an end of one of them)
BoxesMeet(a, b) ==
    \E p \in { a[1], a[3], b[1], b[3] }, q \in { a[2], a[4], b[2], b[4] } :
        /\ float_le(a[1], p) /\ float_le(p, a[3])
        /\ float_le(a[2], q) /\ float_le(q, a[4])
        /\ float_le(b[1], p) /\ float_le(p, b[3])
        /\ float_le(b[2], q) /\ float_le(q, b[4])

\* The real number n * g, not rounded
RECURSIVE ExactTimes(_, _)
ExactTimes(n, g) ==
    IF n = 0 THEN float_of(0) ELSE ExactAdd(ExactTimes(n - 1, g), g)

\* ceil((hi - lo) / g) over the reals: the least n with lo + n * g >= hi
RECURSIVE CeilFrom(_, _, _, _)
CeilFrom(n, at, hi, g) ==
    IF float_le(hi, at) THEN n ELSE CeilFrom(n + 1, ExactAdd(at, g), hi, g)

Ceil(lo, hi, g) == CeilFrom(0, lo, hi, g)

\* lo + n * g as the floats compute it: the product rounded, then the sum
FloatAt(lo, n, g) == float_add(lo, Round53(ExactTimes(n, g)))

\* The columns and rows of the grid built: the cell generated last is that
\* of the last column and the last row
Columns == IF tiles = << >> THEN 0 ELSE tiles[Len(tiles)].key[1] + 1

Rows == IF tiles = << >> THEN 0 ELSE tiles[Len(tiles)].key[2] + 1

\* The cell of column x and row y, the rows of a column being consecutive
Cell(x, y) == tiles[x * Rows + y + 1]

\* No sum of the running longitude (latitude) and g was rounded
NoLonSumRounds ==
    \A x \in 0 .. Columns - 1 :
        Cell(x, 0).bounds[3] = ExactAdd(Cell(x, 0).bounds[1], grid_size)

NoLatSumRounds ==
    \A y \in 0 .. Rows - 1 :
        Cell(0, y).bounds[4] = ExactAdd(Cell(0, y).bounds[2], grid_size)

\* The tiles a feature was appended to
TilesOf(feature) ==
    { k \in DOMAIN tiles : feature \in Range(tiles[k].features) }

\* The tile files of the output directory that hold the feature
FilesOf(feature) ==
    { n \in DOMAIN disk[output_dir].files :
        feature \in Range(disk[output_dir].files[n].features) }

\* The grid lines: the edges of the cells
LonLines == UNION { { tiles[k].bounds[1], tiles[k].bounds[3] } : k \in DOMAIN tiles }

LatLines == UNION { { tiles[k].bounds[2], tiles[k].bounds[4] } : k \in DOMAIN tiles }

Crossed(lines, lo, hi) == { l \in lines : float_lt(lo, l) /\ float_lt(l, hi) }

Touched(lines, lo, hi) == { l \in lines : float_le(lo, l) /\ float_le(l, hi) }

\* The box crosses one grid line and touches no other
StraddlesOneLine(b) ==
    \/ /\ Cardinality(Crossed(LonLines, b[1], b[3])) = 1
       /\ Touched(LonLines, b[1], b[3]) = Crossed(LonLines, b[1], b[3])
       /\ Touched(LatLines, b[2], b[4]) = {}
    \/ /\ Cardinality(Crossed(LatLines, b[2], b[4])) = 1
       /\ Touched(LatLines, b[2], b[4]) = Crossed(LatLines, b[2], b[4])
       /\ Touched(LonLines, b[1], b[3]) = {}

\* The box lies inside one cell and touches none of its edges
StrictlyInsideACell(b) ==
    \E k \in DOMAIN tiles :
        /\ float_lt(tiles[k].bounds[1], b[1])
        /\ float_lt(b[3], tiles[k].bounds[3])
        /\ float_lt(tiles[k].bounds[2], b[2])
        /\ float_lt(b[4], tiles[k].bounds[4])

\* The assignment loop has ended
Assigned ==
    \/ pc = "assign" /\ i > Len(features)
    \/ pc \in {"write", "done"}

\* The tiles that received a feature, in the order of the dict
IsNonEmptyTile(t) == t.features # << >>

NonEmptyTiles == SelectSeq(tiles, IsNonEmptyTile)

\* The features of the input that meet the box, in input order
MeetsBox(b) == [k \in DOMAIN features |-> Bounded(features[k]) /\
                    BoxesMeet(get_bounds(features[k]), b)]

RECURSIVE Meeting(_, _)
Meeting(b, n) ==
    IF n = 0 THEN << >>
    ELSE IF MeetsBox(b)[n]
         THEN Append(Meeting(b, n - 1), features[n])
         ELSE Meeting(b, n - 1)

\* The boxes of the features span a positive width and a positive height
SpansArea(fs) ==
    /\ fs # {}
    /\ \A f \in fs : Bounded(f)
    /\ float_lt(float_min({ get_bounds(f)[1] : f \in fs }),
                float_max({ get_bounds(f)[3] : f \in fs }))
    /\ float_lt(float_min({ get_bounds(f)[2] : f \in fs }),
                float_max({ get_bounds(f)[4] : f \in fs }))

\* The directory holds neither a tile file nor an index
Clean(dir) == dir.files = << >> /\ dir.index = << >>

-----------------------------------------------------------------------------
(* The properties *)

\* C1: a run on a collection whose only feature is a Point (a bounding box
\* of zero width and zero height) completes and writes at least one
\* grid_size x grid_size tile, and a written tile holds the Point.
C1_SinglePointGetsATile ==
    (Terminal /\ Len(features) = 1 /\ IsPoint(features[1])) =>
        /\ pc = "done"
        /\ FilesOf(features[1]) # {}
        /\ \E k \in DOMAIN tiles :
              /\ features[1] \in Range(tiles[k].features)
              /\ tiles[k].bounds[3] = float_add(tiles[k].bounds[1], grid_size)
              /\ tiles[k].bounds[4] = float_add(tiles[k].bounds[2], grid_size)

\* C2: after a completed run every input feature that has a bounding box is
\* held by at least one written tile file, also when the overall bounding
\* box is degenerate on one axis.
C2_EveryBoundedFeatureWritten ==
    pc = "done" =>
        \A k \in DOMAIN features :
            Bounded(features[k]) => FilesOf(features[k]) # {}

\* C3: once the features are assigned, a feature whose box crosses exactly
\* one grid line and touches no other is in exactly two tiles, and a feature
\* whose box lies strictly inside one cell is in exactly one tile.
C3_StraddleTwoInteriorOne ==
    Assigned =>
        \A k \in DOMAIN features :
            Bounded(features[k]) =>
                /\ StraddlesOneLine(get_bounds(features[k])) =>
                       Cardinality(TilesOf(features[k])) = 2
                /\ StrictlyInsideACell(get_bounds(features[k])) =>
                       Cardinality(TilesOf(features[k])) = 1

C3_Witness ==
    /\ pc = "done"
    /\ \E k \in DOMAIN features :
          /\ Bounded(features[k])
          /\ StraddlesOneLine(get_bounds(features[k]))
          /\ Cardinality(TilesOf(features[k])) = 2
          /\ Cardinality(FilesOf(features[k])) = 2

\* The other case of C3 is reached too.
C3_InteriorReached ==
    /\ pc = "done"
    /\ \E k \in DOMAIN features :
          /\ Bounded(features[k])
          /\ StrictlyInsideACell(get_bounds(features[k]))
          /\ Cardinality(TilesOf(features[k])) = 1

\* C4: for a feature with a bounding box, feature_intersects_tile answers
\* true exactly when the feature's box and the tile's box share a point:
\* they overlap or touch, along an edge or at a corner, on both axes.
C4_IntersectsIffBoxesMeet ==
    (call.returned /\ Bounded(call.feature)) =>
        /\ call.raised = ""
        /\ call.result <=> BoxesMeet(get_bounds(call.feature),
                                     call.tile_bounds)

\* A true answer for boxes that share one corner only
C4_Witness ==
    /\ call.returned
    /\ Bounded(call.feature)
    /\ call.result
    /\ get_bounds(call.feature)[3] = call.tile_bounds[1]
    /\ get_bounds(call.feature)[4] = call.tile_bounds[2]

\* A false answer for boxes apart on one axis only is reached too.
C4_ApartReached ==
    /\ call.returned
    /\ Bounded(call.feature)
    /\ ~ call.result
    /\ float_lt(call.tile_bounds[3], get_bounds(call.feature)[1])
    /\ float_le(call.tile_bounds[2], get_bounds(call.feature)[2])
    /\ float_le(get_bounds(call.feature)[4], call.tile_bounds[4])

\* C5: when the input has no feature, or no feature with a bounding box, the
\* run ends with an error at the computation of the bounds and the output
\* is untouched: no tile file, no index, no directory.
C5_NoValidFeatureIsFatal ==
    (pc # "idle" /\ \A k \in DOMAIN features : ~ Bounded(features[k])) =>
        /\ pc \in {"bounds", "failed"}
        /\ pc = "failed" => error \in {"ValueError", "KeyError", "TypeError"}
        /\ disk[output_dir] = pre
        /\ ~ disk[output_dir].exists
        /\ Clean(disk[output_dir])

C5_Witness ==
    /\ pc = "failed"
    /\ error = "ValueError"
    /\ Len(features) = MaxFeatures
    /\ \A k \in DOMAIN features : ~ Bounded(features[k])
    /\ disk = [d \in Dirs |-> NoDir]

\* The case of no feature at all is reached too.
C5_EmptyReached ==
    /\ pc = "failed"
    /\ error = "ValueError"
    /\ features = << >>

\* C6: a feature whose geometry type is none of Point, LineString and
\* Polygon never causes an error: when the other features span a box of
\* positive width and height, the run completes, the feature is in no tile
\* and the other features are tiled.
C6_UnsupportedNeverRaises ==
    (/\ Terminal
     /\ \E k \in DOMAIN features : UnsupportedType(features[k])
     /\ SpansArea({ features[k] : k \in { n \in DOMAIN features :
                                            ~ UnsupportedType(features[n]) } }))
    =>
        /\ pc = "done"
        /\ error = ""
        /\ \A k \in DOMAIN features :
              IF UnsupportedType(features[k])
              THEN TilesOf(features[k]) = {} /\ FilesOf(features[k]) = {}
              ELSE FilesOf(features[k]) # {}

\* The part of C6 that holds: a feature of an unsupported type that has a
\* coordinates member is left out and the run goes on.
C6_WithCoordinatesReached ==
    /\ pc = "done"
    /\ disk[output_dir].files # << >>
    /\ \E k \in DOMAIN features :
          /\ UnsupportedType(features[k])
          /\ TilesOf(features[k]) = {}

\* C7: after a completed run the index lists, one to one and in order, the
\* cells that received a feature: each entry names tile_<x>_<y>.json for its
\* own (x, y), that file holds exactly the features assigned to the cell and
\* the entry counts them; a cell without a feature has no index entry and
\* the run writes no file for it.
C7_IndexMatchesNonEmptyCells ==
    pc = "done" =>
        LET dir == disk[output_dir]
            listed == dir.index[1].tiles
        IN  /\ Len(dir.index) = 1
            /\ Len(listed) = Len(NonEmptyTiles)
            /\ \A k \in DOMAIN listed :
                  LET t == NonEmptyTiles[k]
                      e == listed[k]
                  IN  /\ << e.x, e.y >> = t.key
                      /\ e.bounds = t.bounds
                      /\ e.file = "tile_" \o ToString(t.key[1]) \o "_"
                                     \o ToString(t.key[2]) \o ".json"
                      /\ e.file \in DOMAIN dir.files
                      /\ dir.files[e.file].type = "FeatureCollection"
                      /\ dir.files[e.file].features = t.features
                      /\ t.features = Meeting(t.bounds, Len(features))
                      /\ e.features = Len(dir.files[e.file].features)
                      /\ e.features > 0
            /\ \A k \in DOMAIN tiles :
                  tiles[k].features = << >> =>
                      LET n == "tile_" \o ToString(tiles[k].key[1]) \o "_"
                                  \o ToString(tiles[k].key[2]) \o ".json"
                      IN  /\ \A j \in DOMAIN listed :
                                /\ listed[j].file # n
                                /\ << listed[j].x, listed[j].y >> # tiles[k].key
                          /\ n \in DOMAIN dir.files =>
                                /\ n \in DOMAIN pre.files
                                /\ dir.files[n] = pre.files[n]
            /\ Clean(pre) =>
                  DOMAIN dir.files = { listed[k].file : k \in DOMAIN listed }

\* A completed run with two cells listed and a cell without a feature
C7_Witness ==
    /\ pc = "done"
    /\ Len(disk[output_dir].index[1].tiles) = 2
    /\ Cardinality(DOMAIN disk[output_dir].files) = 2
    /\ \E k \in DOMAIN tiles : tiles[k].features = << >>

\* C8, as claimed: for overall bounds of width W > 0 and height H > 0 the
\* grid has ceil(W/g) columns of ceil(H/g) rows; cell (x, y), y varying
\* fastest, has bounds (min_lon + x*g, min_lat + y*g, min_lon + (x+1)*g,
\* min_lat + (y+1)*g); no cell starts at or beyond the maximum, the last ones
\* reach it or extend past it.
C8_GridIsCeilByCeil ==
    (pc \in {"assign", "write", "done"} /\ float_lt(min_lon, max_lon)
                                        /\ float_lt(min_lat, max_lat)) =>
        LET cols == Ceil(min_lon, max_lon, grid_size)
            rows == Ceil(min_lat, max_lat, grid_size)
        IN  /\ Len(tiles) = cols * rows
            /\ pc = "assign" => tile_x = cols /\ tile_y = rows
            /\ \A x \in 0 .. cols - 1, y \in 0 .. rows - 1 :
                  LET t == tiles[x * rows + y + 1]
                  IN  /\ t.key = << x, y >>
                      /\ t.bounds = << FloatAt(min_lon, x, grid_size),
                                       FloatAt(min_lat, y, grid_size),
                                       FloatAt(min_lon, x + 1, grid_size),
                                       FloatAt(min_lat, y + 1, grid_size) >>
                      /\ float_lt(t.bounds[1], max_lon)
                      /\ float_lt(t.bounds[2], max_lat)

\* C8, amended: for overall bounds of width W > 0 and height H > 0 the grid
\* has one column for every running longitude below max_lon and one row for
\* every running latitude below max_lat, the running coordinate being the
\* minimum with g added once per step, each sum rounded to a double; cell
\* (x, y), y varying fastest, starts at the x-th running longitude and the
\* y-th running latitude and ends g further (one rounded sum), where the
\* next column and row start; no cell starts at or beyond
\* the maximum, the last ones reach it or extend past it.  Where no sum
\* rounds the grid is ceil(W/g) by ceil(H/g); for bounds (0, 0, 0.12, 0.07)
\* and g = 0.05 it is 3 by 2.
C8_GridByRepeatedAddition ==
    (pc \in {"assign", "write", "done"} /\ float_lt(min_lon, max_lon)
                                        /\ float_lt(min_lat, max_lat)) =>
        /\ Columns >= 1 /\ Rows >= 1
        /\ Len(tiles) = Columns * Rows
        /\ pc = "assign" => tile_x = Columns /\ tile_y = Rows
        /\ \A x \in 0 .. Columns - 1 :
              /\ Cell(x, 0).bounds[1] =
                    IF x = 0 THEN min_lon ELSE Cell(x - 1, 0).bounds[3]
              /\ Cell(x, 0).bounds[3] =
                    float_add(Cell(x, 0).bounds[1], grid_size)
        /\ \A y \in 0 .. Rows - 1 :
              /\ Cell(0, y).bounds[2] =
                    IF y = 0 THEN min_lat ELSE Cell(0, y - 1).bounds[4]
              /\ Cell(0, y).bounds[4] =
                    float_add(Cell(0, y).bounds[2], grid_size)
        /\ \A x \in 0 .. Columns - 1, y \in 0 .. Rows - 1 :
              /\ Cell(x, y).key = << x, y >>
              /\ Cell(x, y).bounds =
                    << Cell(x, 0).bounds[1], Cell(0, y).bounds[2],
                       Cell(x, 0).bounds[3], Cell(0, y).bounds[4] >>
              /\ float_lt(Cell(x, y).bounds[1], max_lon)
              /\ float_lt(Cell(x, y).bounds[2], max_lat)
        /\ float_le(max_lon, Cell(Columns - 1, 0).bounds[3])
        /\ float_le(max_lat, Cell(0, Rows - 1).bounds[4])
        /\ NoLonSumRounds => Columns = Ceil(min_lon, max_lon, grid_size)
        /\ NoLatSumRounds => Rows = Ceil(min_lat, max_lat, grid_size)
        /\ (features = ExampleInput /\ grid_size = Double005) =>
              Columns = 3 /\ Rows = 2

\* The grid over the bounds (0.3, 0, 0.4, 0.1) at g = 0.1: 0.3 + 0.1 rounds
\* to 0.4, so there is one column where ceil(W/g) is 2
C8_Witness ==
    /\ pc = "assign"
    /\ grid_size = Tenth(1)
    /\ min_lon = Tenth(3) /\ max_lon = Tenth(4)
    /\ min_lat = Tenth(0) /\ max_lat = Tenth(1)
    /\ Columns = 1 /\ Rows = 1
    /\ Ceil(min_lon, max_lon, grid_size) = 2

\* Nine rows over the latitudes 0 to 0.8 at g = 0.1, where ceil is 8, are
\* reached too.
C8_NineRowsReached ==
    /\ pc = "assign"
    /\ grid_size = Tenth(1)
    /\ min_lat = Tenth(0) /\ max_lat = Tenth(8)
    /\ Columns = 1 /\ Rows = 9
    /\ Ceil(min_lat, max_lat, grid_size) = 8

\* The grid of the example, 3 columns of 2 rows, is reached too.
C8_ThreeByTwoReached ==
    /\ pc = "assign"
    /\ features = ExampleInput
    /\ tile_x = 3 /\ tile_y = 2
    /\ Len(tiles) = 6

\* A grid of 2 x 2 cells of size 2 over a box of 3 x 3, where no sum
\* rounds, is reached too: the last column and row extend past the maximum.
C8_ExactReached ==
    /\ pc = "assign"
    /\ grid_size = float_of(2)
    /\ max_lon = float_of(3) /\ min_lon = float_of(0)
    /\ max_lat = float_of(3) /\ min_lat = float_of(0)
    /\ Len(tiles) = 4
    /\ float_lt(max_lon, tiles[4].bounds[3])
    /\ NoLonSumRounds /\ NoLatSumRounds

\* C9: two completed runs on the same input and grid size, each into a clean
\* directory, leave the same tile files with the same contents and an index
\* with the same entries in the same order.
C9_SameInputSameOutput ==
    \A a \in DOMAIN completed, b \in DOMAIN completed :
        (/\ completed[a].features = completed[b].features
         /\ completed[a].grid_size = completed[b].grid_size
         /\ Clean(completed[a].pre)
         /\ Clean(completed[b].pre))
        =>
            /\ completed[a].dir.files = completed[b].dir.files
            /\ completed[a].dir.index = completed[b].dir.index

\* Two runs on one input into two clean directories, with a tile written
C9_Witness ==
    /\ Len(completed) = 2
    /\ completed[1].features = completed[2].features
    /\ completed[1].grid_size = completed[2].grid_size
    /\ completed[1].output_dir # completed[2].output_dir
    /\ Clean(completed[1].pre)
    /\ Clean(completed[2].pre)
    /\ Cardinality(DOMAIN completed[2].dir.files) >= 2
    /\ disk[completed[1].output_dir] = disk[completed[2].output_dir]

\* The files of the directory the run has rewritten so far
Rewritten ==
    { TileEntry(tiles[k]).file :
        k \in { n \in DOMAIN tiles : n < w /\ tiles[n].features # << >> } }

\* C10: a run into a directory earlier runs wrote to replaces the index as
\* a whole: the index lists the tiles of this run that received a feature
\* and nothing else; a tile file of an earlier run that this run does not
\* rewrite stays as it was, unlisted; the index is not touched before every
\* tile file of the run is written.
C10_IndexReplacedWholesale ==
    LET dir == disk[output_dir]
    IN  /\ pc \in {"bounds", "grid", "assign", "write"} =>
              dir.index = pre.index
        /\ pc \in {"write", "done"} =>
              \A n \in DOMAIN pre.files :
                  n \notin Rewritten =>
                      n \in DOMAIN dir.files /\ dir.files[n] = pre.files[n]
        /\ pc = "done" =>
              /\ dir.index =
                    << [grid_size |-> grid_size,
                        bounds |-> << min_lon, min_lat, max_lon, max_lat >>,
                        tiles |-> [k \in DOMAIN NonEmptyTiles |->
                                      TileEntry(NonEmptyTiles[k])]] >>
              /\ \A k \in DOMAIN NonEmptyTiles :
                    /\ TileEntry(NonEmptyTiles[k]).file \in DOMAIN dir.files
                    /\ dir.files[TileEntry(NonEmptyTiles[k]).file].features
                          = NonEmptyTiles[k].features
              /\ \A n \in DOMAIN dir.files :
                    n \notin Rewritten =>
                        \A k \in DOMAIN dir.index[1].tiles :
                            dir.index[1].tiles[k].file # n

\* A second run into the same directory has completed; a tile file of the
\* first run is still there, unchanged, and the new index does not list it
C10_Witness ==
    /\ pc = "done"
    /\ Len(completed) = 2
    /\ completed[1].output_dir = output_dir
    /\ disk[output_dir].index # pre.index
    /\ \E n \in DOMAIN pre.files :
          /\ n \notin Rewritten
          /\ n \in DOMAIN disk[output_dir].files
          /\ disk[output_dir].files[n] = pre.files[n]
          /\ \A k \in DOMAIN disk[output_dir].index[1].tiles :
                disk[output_dir].index[1].tiles[k].file # n

=============================================================================
